---- MODULE Spec2Model ----
(***************************************************************************)
(* A model of chemical_formula.py: tokenize, Lexer and the recursive       *)
(* descent Parser.  Strings are sequences of one-character strings, so the *)
(* Lexer's regular expression is modelled on characters.  The Parser is a  *)
(* machine with an explicit call stack: one action per block of code       *)
(* between two calls, so every lexer position the parser passes through is *)
(* a state.                                                                *)
(***************************************************************************)
EXTENDS Integers, Sequences, FiniteSets

VARIABLES
    raw,         \* the argument of a direct tokenize() call
    tokenized,   \* what that call returned or raised (None before it)
    inputs,      \* the formula strings, one Lexer + Parser pair each
    job,         \* index in inputs of the pair being driven
    finished,    \* outcome of parse_formula for every earlier pair
    _tokens,     \* Lexer._tokens
    position,    \* Lexer.position
    lexlog,      \* the caller's direct Lexer calls so far, with results
    _result,     \* Parser._result
    stack,       \* the parser's call stack, innermost frame last
    retval,      \* the Counter the last finished frame returned
    calls        \* outcome of every finished parse_formula call on this pair

vars == <<raw, tokenized, inputs, job, finished, _tokens, position, lexlog,
          _result, stack, retval, calls>>

\* ------------------------------------------------------------- bounds
MaxTokLen == 2
MaxLen == 4
MaxCalls == 3
MaxLexLen == 3
MaxLexCalls == 4
MaxMolLen == 3
MaxFactorLen == 1
MaxPartLen == 2

\* ------------------------------------------------------- characters
\* The members of each character class that the model draws from; "+" is in
\* none of them.
Upper == {"H", "O"}
Lower == {"e"}
Digits == {"0", "1", "2"}
OpeningBrackets == {"(", "{", "["}
ClosingBrackets == {")", "}", "]"}

TokenizeChars == {"H", "e", "2", "(", "{", "[", ")", "}", "]", "+"}
FormulaChars == {"H", "e", "0", "1", "2", "(", ")", "]"}
LexerChars == {"H", "e", "2", "(", "]", "+"}
PartChars == {"H", "e", "2", "(", ")"}
FactorChars == {"0", "1", "2"}

Strings(chars, n) == UNION {[1..k -> chars] : k \in 0..n}

\* Python's None; an optional value v is <<v>>.
None == <<>>

\* ---------------------------------------------------------- tokenize
Token(value, token_type) == [value |-> value, token_type |-> token_type]

TokenizerException(token) == [exception |-> "TokenizerException", token |-> token]

IsToken(r) == "token_type" \in DOMAIN r

\* str.isalpha / str.isdecimal: False on the empty string.
isalpha(s) == s # <<>> /\ \A i \in 1..Len(s) : s[i] \in Upper \cup Lower

isdecimal(s) == s # <<>> /\ \A i \in 1..Len(s) : s[i] \in Digits

\* tokenize without lines 74-75.
tokenize_no_decimal(token) ==
    IF token = <<>> THEN Token(token, "EOF")
    ELSE IF isalpha(token) THEN Token(token, "ATOM")
    ELSE IF Len(token) = 1 /\ token[1] \in OpeningBrackets
        THEN Token(token, "OPENING_BRACKET")
    ELSE IF Len(token) = 1 /\ token[1] \in ClosingBrackets
        THEN Token(token, "CLOSING_BRACKET")
    ELSE TokenizerException(token)

\* tokenize, lines 70-81.
tokenize(token) ==
    IF token = <<>> THEN Token(token, "EOF")
    ELSE IF isalpha(token) THEN Token(token, "ATOM")
    ELSE IF isdecimal(token) THEN Token(token, "FACTOR")
    ELSE IF Len(token) = 1 /\ token[1] \in OpeningBrackets
        THEN Token(token, "OPENING_BRACKET")
    ELSE IF Len(token) = 1 /\ token[1] \in ClosingBrackets
        THEN Token(token, "CLOSING_BRACKET")
    ELSE TokenizerException(token)

\* ------------------------------------------------------------- Lexer
\* The end of the run of digits that starts at i (the greedy \d+).
RECURSIVE DigitRunEnd(_, _)
DigitRunEnd(formula, i) ==
    IF i + 1 <= Len(formula) /\ formula[i + 1] \in Digits
    THEN DigitRunEnd(formula, i + 1)
    ELSE i

\* re.findall(r'[A-Z][a-z]?|\d+|[\[({})\]]', formula), scanning from index i.
RECURSIVE FindallFrom(_, _)
FindallFrom(formula, i) ==
    IF i > Len(formula) THEN <<>>
    ELSE IF formula[i] \in Upper THEN
        IF i + 1 <= Len(formula) /\ formula[i + 1] \in Lower
        THEN <<SubSeq(formula, i, i + 1)>> \o FindallFrom(formula, i + 2)
        ELSE <<SubSeq(formula, i, i)>> \o FindallFrom(formula, i + 1)
    ELSE IF formula[i] \in Digits THEN
        <<SubSeq(formula, i, DigitRunEnd(formula, i))>>
            \o FindallFrom(formula, DigitRunEnd(formula, i) + 1)
    ELSE IF formula[i] \in OpeningBrackets \cup ClosingBrackets THEN
        <<SubSeq(formula, i, i)>> \o FindallFrom(formula, i + 1)
    ELSE FindallFrom(formula, i + 1)

findall(formula) == FindallFrom(formula, 1)

\* Lexer.peek reading the substring before the cursor.
peek_at_previous(toks, pos) ==
    IF pos >= 1 /\ pos <= Len(toks) THEN tokenize(toks[pos]) ELSE tokenize(<<>>)

\* Lexer.peek on a lexer in state (toks, pos): _tokens[position], or
\* tokenize("") on IndexError.  Python indexes from 0.
peek_at(toks, pos) ==
    IF pos < Len(toks) THEN tokenize(toks[pos + 1]) ELSE tokenize(<<>>)

peek == peek_at(_tokens, position)

\* Line 115 adding 2.
advance_by_two(pos) == pos + 2

\* Line 115: self.position += 1

advance(pos) == pos + 1

\* ----------------------------------------------------------- Counter
EmptyCounter == [k \in {} |-> 0]

Get(c, k) == IF k \in DOMAIN c THEN c[k] ELSE 0

\* Counter._keep_positive
keep_positive(c) == [k \in {x \in DOMAIN c : c[x] > 0} |-> c[k]]

\* Counter.__iadd__ without the final _keep_positive.
iadd_keep_all(self, other) ==
    [k \in DOMAIN self \cup DOMAIN other |-> Get(self, k) + Get(other, k)]

\* An update() in place of +=: the right operand's counts overwrite.
iadd_overwrite(self, other) ==
    keep_positive([k \in DOMAIN self \cup DOMAIN other |->
                      IF k \in DOMAIN other THEN other[k] ELSE self[k]])

\* Counter.__iadd__: add other's counts, then drop every count that is <= 0.
iadd(self, other) ==
    keep_positive([k \in DOMAIN self \cup DOMAIN other |->
                      Get(self, k) + Get(other, k)])

DigitValue(c) ==
    CASE c = "0" -> 0 [] c = "1" -> 1 [] c = "2" -> 2

\* int(token.value) of a string of decimal digits.
RECURSIVE int(_)
int(s) ==
    IF s = <<>> THEN 0
    ELSE 10 * int(SubSeq(s, 1, Len(s) - 1)) + DigitValue(s[Len(s)])

\* _parse_group, lines 216-218, with the factor added instead of multiplied.
scale_add(counter, factor) ==
    IF factor # 1 THEN [k \in DOMAIN counter |-> counter[k] + factor] ELSE counter

\* _parse_group, lines 216-218: every count times the factor.
scale(counter, factor) ==
    IF factor # 1 THEN [k \in DOMAIN counter |-> counter[k] * factor] ELSE counter

\* ------------------------------------------------------------ Parser
ParsingException(token, pos) ==
    [exception |-> "ParsingException", token |-> token, position |-> pos]

\* How a parse_formula call ended, and where it left the lexer.
Returned(value, lexpos) ==
    [kind |-> "return", value |-> value, lexer_position |-> lexpos]

Raised(exc, lexpos) ==
    [kind |-> "raise", exception |-> exc, lexer_position |-> lexpos]

Frame(fn, pc, counter) == [fn |-> fn, pc |-> pc, counter |-> counter]

Top == stack[Len(stack)]

Below == SubSeq(stack, 1, Len(stack) - 1)

At(fn, pc) == stack # <<>> /\ Top.fn = fn /\ Top.pc = pc

\* The current frame goes on (or calls, or returns): no exception.
Goto(stk, pos, ret) ==
    /\ stack' = stk
    /\ position' = pos
    /\ retval' = ret
    /\ calls' = calls

\* An exception leaves through every frame: nothing catches it.
Throw(exc, pos) ==
    /\ stack' = <<>>
    /\ position' = pos
    /\ retval' = None
    /\ calls' = Append(calls, Raised(exc, pos))

Rest == <<raw, tokenized, inputs, job, finished, _tokens, lexlog>>

\* Line 160 with the test dropped: parse on every call.
needs_parse_always(res) == TRUE

\* Line 160: if self._result is None
needs_parse(res) == res = None

\* Lines 179 and 186 with OPENING_BRACKET left out of the set.
starts_group_atom_only(token_type) == token_type \in {"ATOM"}

\* Lines 179 and 186: token.token_type in {OPENING_BRACKET, ATOM}
starts_group(token_type) == token_type \in {"OPENING_BRACKET", "ATOM"}

\* parse_formula is called (lines 160-161, or 160 and 165 when cached).
parse_formula(limit) ==
    /\ job \in 1..Len(inputs)
    /\ stack = <<>>
    /\ Len(calls) < limit
    /\ IF needs_parse(_result)
       THEN Goto(<<Frame("parse_formula", "molecule", EmptyCounter),
                   Frame("_parse_molecule", "start", EmptyCounter)>>,
                 position, None)
       ELSE /\ stack' = <<>>
            /\ position' = position
            /\ retval' = None
            /\ calls' = Append(calls, Returned(_result[1], position))
    /\ UNCHANGED <<_result, Rest>>

\* parse_formula after _parse_molecule returned (lines 161-165).
parse_formula_check ==
    /\ At("parse_formula", "molecule")
    /\ _result' = <<retval>>
    /\ LET token == peek IN
       IF ~IsToken(token) THEN Throw(token, position)
       ELSE IF token.token_type # "EOF"
       THEN Throw(ParsingException(token, position), position)
       ELSE /\ stack' = <<>>
            /\ position' = position
            /\ retval' = None
            /\ calls' = Append(calls, Returned(retval, position))
    /\ UNCHANGED Rest

\* _parse_molecule up to the call of _parse_group (lines 177-183).
_parse_molecule ==
    /\ At("_parse_molecule", "start")
    /\ LET token == peek IN
       IF ~IsToken(token) THEN Throw(token, position)
       ELSE IF starts_group(token.token_type)
       THEN Goto(Below \o <<Frame("_parse_molecule", "group", EmptyCounter),
                            Frame("_parse_group", "start", EmptyCounter)>>,
                 position, None)
       ELSE Throw(ParsingException(token, position), position)
    /\ UNCHANGED <<_result, Rest>>

\* _parse_molecule after _parse_group returned (lines 181, 185-190).
_parse_molecule_group ==
    /\ At("_parse_molecule", "group")
    /\ LET outer_counter == iadd(Top.counter, retval)
           token == peek
       IN
       IF ~IsToken(token) THEN Throw(token, position)
       ELSE IF starts_group(token.token_type)
       THEN Goto(Below \o <<Frame("_parse_molecule", "molecule", outer_counter),
                            Frame("_parse_molecule", "start", EmptyCounter)>>,
                 position, None)
       ELSE Goto(Below, position, outer_counter)
    /\ UNCHANGED <<_result, Rest>>

\* _parse_molecule after the inner _parse_molecule returned (lines 188-190).
_parse_molecule_molecule ==
    /\ At("_parse_molecule", "molecule")
    /\ Goto(Below, position, iadd(Top.counter, retval))
    /\ UNCHANGED <<_result, Rest>>

\* _parse_group up to the call of _parse_molecule, or through _parse_atom
\* (lines 202-211, 222-226, 238-246).
_parse_group ==
    /\ At("_parse_group", "start")
    /\ LET token == peek IN
       IF ~IsToken(token) THEN Throw(token, position)
       ELSE IF token.token_type = "OPENING_BRACKET"
       THEN Goto(Below \o <<Frame("_parse_group", "molecule", EmptyCounter),
                            Frame("_parse_molecule", "start", EmptyCounter)>>,
                 advance(position), None)
       ELSE IF token.token_type = "ATOM"
       THEN Goto(Below \o <<Frame("_parse_group", "factor",
                                  [k \in {token.value} |-> 1])>>,
                 advance(position), None)
       ELSE Throw(ParsingException(token, position), position)
    /\ UNCHANGED <<_result, Rest>>

\* _consume_closing_bracket, after _parse_molecule returned (lines 206-207,
\* 228-236): the token is consumed before it is tested.
_consume_closing_bracket ==
    /\ At("_parse_group", "molecule")
    /\ LET token == peek IN
       IF ~IsToken(token) THEN Throw(token, position)
       ELSE IF token.token_type # "CLOSING_BRACKET"
       THEN Throw(ParsingException(token, advance(position)), advance(position))
       ELSE Goto(Below \o <<Frame("_parse_group", "factor", retval)>>,
                 advance(position), None)
    /\ UNCHANGED <<_result, Rest>>

\* _parse_group from the factor on (lines 213-220, 248-253).
_parse_group_factor ==
    /\ At("_parse_group", "factor")
    /\ LET token == peek IN
       IF ~IsToken(token) THEN Throw(token, position)
       ELSE IF token.token_type = "FACTOR"
       THEN Goto(Below, advance(position), scale(Top.counter, int(token.value)))
       ELSE Goto(Below, position, Top.counter)
    /\ UNCHANGED <<_result, Rest>>

ParserStep ==
    \/ parse_formula_check
    \/ _parse_molecule
    \/ _parse_molecule_group
    \/ _parse_molecule_molecule
    \/ _parse_group
    \/ _consume_closing_bracket
    \/ _parse_group_factor

\* Lexer(formula) and Parser(lexer) (lines 93-95, 146-148).
Constructed(formula) ==
    /\ _tokens = findall(formula)
    /\ position = 0
    /\ _result = None
    /\ stack = <<>>
    /\ retval = None
    /\ calls = <<>>

NoTokenizeCall == raw = <<>> /\ tokenized = None

\* One pair, for a formula of up to MaxLen characters.
Init ==
    /\ NoTokenizeCall
    /\ \E f \in Strings(FormulaChars, MaxLen) : inputs = <<f>>
    /\ job = 1
    /\ finished = <<>>
    /\ lexlog = <<>>
    /\ Constructed(inputs[1])

Next == parse_formula(MaxCalls) \/ ParserStep

Spec == Init /\ [][Next]_vars

\* ------------------------------------------------- other callers
NoPair ==
    /\ inputs = <<>>
    /\ job = 0
    /\ finished = <<>>
    /\ _tokens = <<>>
    /\ position = 0
    /\ lexlog = <<>>
    /\ _result = None
    /\ stack = <<>>
    /\ retval = None
    /\ calls = <<>>

\* A caller of tokenize alone, on any string of up to MaxTokLen characters.
InitTokenize ==
    /\ raw \in Strings(TokenizeChars, MaxTokLen)
    /\ tokenized = None
    /\ NoPair

call_tokenize ==
    /\ tokenized = None
    /\ tokenized' = <<tokenize(raw)>>
    /\ UNCHANGED <<raw, inputs, job, finished, _tokens, position, lexlog,
                   _result, stack, retval, calls>>

NextTokenize == call_tokenize

SpecTokenize == InitTokenize /\ [][NextTokenize]_vars

\* A caller that drives a Lexer directly.
InitLexer ==
    /\ NoTokenizeCall
    /\ \E f \in Strings(LexerChars, MaxLexLen) : inputs = <<f>>
    /\ job = 1
    /\ finished = <<>>
    /\ lexlog = <<>>
    /\ Constructed(inputs[1])

LexerCall(op, token, after) ==
    [op |-> op, token |-> token, before |-> position, after |-> after]

ParserIdle == <<_result, stack, retval, calls>>

\* Lexer.peek, lines 103-106.
call_peek ==
    /\ Len(lexlog) < MaxLexCalls
    /\ position' = position
    /\ lexlog' = Append(lexlog, LexerCall("peek", peek, position'))
    /\ UNCHANGED <<raw, tokenized, inputs, job, finished, _tokens, ParserIdle>>

\* Lexer.get_next_token, lines 114-116.
call_get_next_token ==
    /\ Len(lexlog) < MaxLexCalls
    /\ position' = advance(position)
    /\ lexlog' = Append(lexlog, LexerCall("get_next_token", peek, position'))
    /\ UNCHANGED <<raw, tokenized, inputs, job, finished, _tokens, ParserIdle>>

NextLexer == call_peek \/ call_get_next_token

SpecLexer == InitLexer /\ [][NextLexer]_vars

\* The caller is done with one pair and constructs the next: a fresh Lexer
\* and Parser for the next formula (lines 93-95, 146-148).
construct_next ==
    /\ stack = <<>>
    /\ calls # <<>>
    /\ job < Len(inputs)
    /\ job' = job + 1
    /\ finished' = Append(finished, calls[1])
    /\ _tokens' = findall(inputs[job + 1])
    /\ position' = 0
    /\ _result' = None
    /\ stack' = <<>>
    /\ retval' = None
    /\ calls' = <<>>
    /\ UNCHANGED <<raw, tokenized, inputs, lexlog>>

NextPairs == parse_formula(1) \/ ParserStep \/ construct_next

NonEmpty(chars, n) == Strings(chars, n) \ {<<>>}

\* A molecule M, then M in brackets followed by a factor n.
InitWrap ==
    /\ NoTokenizeCall
    /\ \E M \in Strings(FormulaChars, MaxMolLen), n \in NonEmpty(FactorChars, MaxFactorLen) :
          inputs = <<M, <<"(">> \o M \o <<")">> \o n>>
    /\ job = 1
    /\ finished = <<>>
    /\ lexlog = <<>>
    /\ Constructed(inputs[1])

SpecWrap == InitWrap /\ [][NextPairs]_vars

\* A, then B, then the concatenation AB.
InitConcat ==
    /\ NoTokenizeCall
    /\ \E A \in Strings(PartChars, MaxPartLen), B \in Strings(PartChars, MaxPartLen) :
          inputs = <<A, B, A \o B>>
    /\ job = 1
    /\ finished = <<>>
    /\ lexlog = <<>>
    /\ Constructed(inputs[1])

SpecConcat == InitConcat /\ [][NextPairs]_vars

\* ------------------------------------------------------ the grammar
\* The grammar of the module docstring (lines 4-6), on sequences of token
\* kinds; the EOF of `formula` is the end of the sequence.
RECURSIVE DerivesMolecule(_)
RECURSIVE DerivesGroup(_)
DerivesGroup(k) ==
    \/ k = <<"ATOM">>
    \/ k = <<"ATOM", "FACTOR">>
    \/ /\ Len(k) >= 3
       /\ k[1] = "OPENING_BRACKET"
       /\ k[Len(k)] = "CLOSING_BRACKET"
       /\ DerivesMolecule(SubSeq(k, 2, Len(k) - 1))
    \/ /\ Len(k) >= 4
       /\ k[1] = "OPENING_BRACKET"
       /\ k[Len(k) - 1] = "CLOSING_BRACKET"
       /\ k[Len(k)] = "FACTOR"
       /\ DerivesMolecule(SubSeq(k, 2, Len(k) - 2))

DerivesMolecule(k) ==
    \E i \in 1..Len(k) :
        /\ DerivesGroup(SubSeq(k, 1, i))
        /\ (i = Len(k) \/ DerivesMolecule(SubSeq(k, i + 1, Len(k))))

DerivesFormula(k) == DerivesMolecule(k)

\* The kind of a lexed substring, read off its first character.
KindOfLexeme(s) ==
    IF s = <<>> THEN "EOF"
    ELSE IF s[1] \in Upper THEN "ATOM"
    ELSE IF s[1] \in Digits THEN "FACTOR"
    ELSE IF s[1] \in OpeningBrackets THEN "OPENING_BRACKET"
    ELSE IF s[1] \in ClosingBrackets THEN "CLOSING_BRACKET"
    ELSE "none"

Kinds(toks) == [i \in 1..Len(toks) |-> KindOfLexeme(toks[i])]

\* The token at index p of a token sequence, end-of-input at its length.
TokenAtIndex(toks, p) ==
    IF p < Len(toks) THEN [value |-> toks[p + 1], token_type |-> KindOfLexeme(toks[p + 1])]
    ELSE [value |-> <<>>, token_type |-> "EOF"]

IsReturn(o) == o.kind = "return"

IsGrammarError(o) == o.kind = "raise" /\ o.exception.exception = "ParsingException"

\* ----------------------------------------------------------- claims

\* C1: the first parse_formula call on a pair returns a mapping exactly when
\* the kinds of the lexed tokens are derivable from the grammar, and raises
\* ParsingException on every other token sequence.
C1_GrammarDecides ==
    calls # <<>> =>
        /\ IsReturn(calls[1]) <=> DerivesFormula(Kinds(_tokens))
        /\ ~IsReturn(calls[1]) => IsGrammarError(calls[1])

\* C1 witness: a bracketed group closed by a bracket of another shape and
\* followed by a factor was accepted.
C1_Witness ==
    /\ calls # <<>>
    /\ IsReturn(calls[1])
    /\ inputs[1] = <<"(", "H", "]", "2">>

\* C4: once a parse_formula call has returned a mapping, every later call on
\* the pair returns the same mapping, runs no rule of the grammar and leaves
\* the lexer where it was.
C4_MemoAfterSuccess ==
    /\ \A i, j \in 1..Len(calls) :
          (i < j /\ IsReturn(calls[i])) =>
              /\ IsReturn(calls[j])
              /\ calls[j].value = calls[i].value
              /\ calls[j].lexer_position = calls[i].lexer_position
    /\ (\E i \in 1..Len(calls) : IsReturn(calls[i])) =>
          /\ stack = <<>>
          /\ position = calls[Len(calls)].lexer_position

\* C4 witness: a second call after a first one that returned a mapping.
C4_Witness ==
    /\ Len(calls) >= 2
    /\ IsReturn(calls[1])
    /\ DOMAIN calls[1].value # {}

\* C5: when the first call raised a grammar error, every later call raises a
\* grammar error with the same token kind and the same position.
C5_MemoAfterFailure ==
    \A j \in 2..Len(calls) :
        IsGrammarError(calls[1]) =>
            /\ IsGrammarError(calls[j])
            /\ calls[j].exception.token.token_type = calls[1].exception.token.token_type
            /\ calls[j].exception.position = calls[1].exception.position

IsAtomSymbol(k) ==
    /\ Len(k) \in {1, 2}
    /\ k[1] \in Upper
    /\ Len(k) = 2 => k[2] \in Lower

\* C6: every mapping parse_formula returns has atom symbols as keys and
\* strictly positive counts as values.
C6_ResultWellFormed ==
    \A i \in 1..Len(calls) :
        IsReturn(calls[i]) =>
            \A k \in DOMAIN calls[i].value :
                IsAtomSymbol(k) /\ calls[i].value[k] >= 1

\* C6 witness: a mapping was returned for a formula with brackets and a
\* factor of 0.
C6_Witness ==
    /\ calls # <<>>
    /\ IsReturn(calls[1])
    /\ inputs[1] = <<"(", "H", ")", "0">>

\* C9 as stated: the lexer's position never exceeds the number of lexed
\* substrings.
C9_PositionWithinTokens == 0 <= position /\ position <= Len(_tokens)

\* C9 amended: while parse_formula runs the position stays between 0 and the
\* number of lexed substrings plus one, and it is past the number only after
\* _consume_closing_bracket consumed end-of-input and raised.
C9_PositionAtMostOnePast ==
    /\ 0 <= position
    /\ position <= Len(_tokens) + 1
    /\ position = Len(_tokens) + 1 =>
          /\ calls # <<>>
          /\ IsGrammarError(calls[1])
          /\ calls[1].exception.token.token_type = "EOF"
          /\ calls[1].exception.position = position

\* C9 witness: the position is one past the number of lexed substrings.
C9_Witness == position = Len(_tokens) + 1 /\ Len(_tokens) >= 2

\* C10: the token of every ParsingException is the token at index
\* exception.position of the token sequence (end-of-input at its length).
C10_ErrorPositionIsTokenIndex ==
    \A i \in 1..Len(calls) :
        IsGrammarError(calls[i]) =>
            /\ calls[i].exception.position <= Len(_tokens)
            /\ calls[i].exception.token =
                   TokenAtIndex(_tokens, calls[i].exception.position)

AllIn(str, chars) == \A i \in 1..Len(str) : str[i] \in chars

\* C7: tokenize(s) returns a Token with value s whose kind is EOF for the
\* empty string, ATOM for letters only, FACTOR for decimal digits only,
\* OPENING_BRACKET for exactly one of ( { [, CLOSING_BRACKET for exactly one
\* of ) } ]; on every other string it raises TokenizerException carrying s.
C7_TokenizeClassifies ==
    tokenized # None =>
        tokenized[1] =
            IF raw = <<>> THEN [value |-> raw, token_type |-> "EOF"]
            ELSE IF AllIn(raw, Upper \cup Lower) THEN [value |-> raw, token_type |-> "ATOM"]
            ELSE IF AllIn(raw, Digits) THEN [value |-> raw, token_type |-> "FACTOR"]
            ELSE IF raw \in {<<"(">>, <<"{">>, <<"[">>}
                THEN [value |-> raw, token_type |-> "OPENING_BRACKET"]
            ELSE IF raw \in {<<")">>, <<"}">>, <<"]">>}
                THEN [value |-> raw, token_type |-> "CLOSING_BRACKET"]
            ELSE [exception |-> "TokenizerException", token |-> raw]

\* C7 witness: tokenize raised on a string of a letter and a digit.
C7_Witness ==
    /\ raw = <<"H", "2">>
    /\ tokenized = <<[exception |-> "TokenizerException", token |-> raw]>>

\* The lexer calls up to the i-th that consumed a token.
Consumed(log, i) == {j \in 1..i : log[j].op = "get_next_token"}

\* C8: every peek and every get_next_token returns the token of the
\* substring at index position (end-of-input at or past the end); peek
\* leaves position as it is and get_next_token adds exactly 1; so position
\* is the number of tokens consumed so far and the consumed tokens are the
\* lexed substrings in order, then end-of-input.
C8_LexerCursor ==
    /\ \A i \in 1..Len(lexlog) :
          /\ lexlog[i].before = (IF i = 1 THEN 0 ELSE lexlog[i - 1].after)
          /\ lexlog[i].before = Cardinality(Consumed(lexlog, i - 1))
          /\ lexlog[i].token = TokenAtIndex(_tokens, lexlog[i].before)
          /\ lexlog[i].op = "peek" => lexlog[i].after = lexlog[i].before
          /\ lexlog[i].op = "get_next_token" => lexlog[i].after = lexlog[i].before + 1
    /\ position = Cardinality(Consumed(lexlog, Len(lexlog)))

\* C8 witness: a token was consumed past the end after a peek, on a lexer
\* that holds at least one substring.
C8_Witness ==
    /\ Len(_tokens) >= 1
    /\ \E i, j \in 1..Len(lexlog) :
          /\ i < j
          /\ lexlog[i].op = "peek"
          /\ lexlog[j].op = "get_next_token"
          /\ lexlog[j].before >= Len(_tokens)

\* The factor n of the second formula, ( M ) n.
WrapFactor == int(SubSeq(inputs[2], Len(inputs[1]) + 3, Len(inputs[2])))

WrapDone == job = 2 /\ stack = <<>> /\ calls # <<>> /\ IsReturn(finished[1])

\* C2 as stated: when M parses to C, ( M ) n parses to a mapping with C's
\* keys and every count multiplied by n, for every factor n.
C2_WrapMultiplies ==
    WrapDone =>
        /\ IsReturn(calls[1])
        /\ DOMAIN calls[1].value = DOMAIN finished[1].value
        /\ \A k \in DOMAIN finished[1].value :
              calls[1].value[k] = finished[1].value[k] * WrapFactor

\* C2 amended: that holds for every factor n >= 1; for a factor of 0 the
\* result is the empty mapping.
C2_WrapMultipliesPositive ==
    WrapDone =>
        /\ IsReturn(calls[1])
        /\ WrapFactor >= 1 =>
              /\ DOMAIN calls[1].value = DOMAIN finished[1].value
              /\ \A k \in DOMAIN finished[1].value :
                    calls[1].value[k] = finished[1].value[k] * WrapFactor
        /\ WrapFactor = 0 => DOMAIN calls[1].value = {}

\* C2 witness: a molecule of two atoms was wrapped with the factor 2.
C2_Witness ==
    /\ WrapDone
    /\ IsReturn(calls[1])
    /\ Cardinality(DOMAIN finished[1].value) = 2
    /\ WrapFactor = 2

KeywiseSum(a, b) == [k \in DOMAIN a \cup DOMAIN b |-> Get(a, k) + Get(b, k)]

IsSingleGroup(formula) == DerivesGroup(Kinds(findall(formula)))

ConcatDone ==
    /\ job = 3
    /\ stack = <<>>
    /\ calls # <<>>
    /\ IsReturn(finished[1]) /\ IsSingleGroup(inputs[1])
    /\ IsReturn(finished[2]) /\ IsSingleGroup(inputs[2])

\* C3 as stated: when A and B each parse as a single group, AB parses to the
\* key-wise sum of their mappings.
C3_ConcatAdds ==
    ConcatDone =>
        /\ IsReturn(calls[1])
        /\ calls[1].value = KeywiseSum(finished[1].value, finished[2].value)

\* C3 amended: that holds when the lexer splits AB into the substrings of A
\* followed by those of B, which it does unless A ends in an uppercase letter
\* and B begins with a lowercase letter.
C3_ConcatAddsSameTokens ==
    (ConcatDone /\ _tokens = findall(inputs[1]) \o findall(inputs[2])) =>
        /\ IsReturn(calls[1])
        /\ calls[1].value = KeywiseSum(finished[1].value, finished[2].value)

\* C3 witness: both groups hold the same atom, and the counts were summed.
C3_Witness ==
    /\ ConcatDone
    /\ inputs[1] = <<"H">>
    /\ inputs[2] = <<"H", "2">>
    /\ IsReturn(calls[1])
    /\ calls[1].value[<<"H">>] = 3

====
